---- MODULE Spec2Model ----
(***************************************************************************)
(* Model of the mmp-mcp memory service.                                    *)
(*                                                                         *)
(* Two implementations of class MemoryService exist in the repository:     *)
(*   - the Local service (src/unnamed/part_003), which composes the        *)
(*     storage layer (src/src/services/memoryService.ts, lines 473-825)    *)
(*     over a node-persist key/value medium;                               *)
(*   - the Remote-forwarding service (src/src/services/memoryService.ts,   *)
(*     lines 236-466), which forwards every operation as one JSON-RPC      *)
(*     request.                                                            *)
(* A process runs one of them; the variable backend records which.         *)
(*                                                                         *)
(* Encoding of JavaScript values:                                          *)
(*   - an object is a function from property names to values; a property   *)
(*     that is undefined is simply not in the DOMAIN;                      *)
(*   - a nullable result (T | null) is a sequence of length 0 or 1;        *)
(*   - path and content strings are sequences of characters, so that       *)
(*     startsWith can be computed; other strings are opaque;               *)
(*   - a memory id is a natural number: k > 0 stands for the k-th id       *)
(*     produced by generateMemoryId, NoId stands for '' (or an omitted     *)
(*     id), the only falsy id;                                             *)
(*   - an ISO timestamp is the integer reading of the clock.               *)
(***************************************************************************)
EXTENDS Integers, Sequences, FiniteSets, TLC

\* ---------------------------------------------------------------- bounds
MaxMemories == 2    \* collections that createMemory may allocate
MaxNodes == 3       \* nodes held by the storage medium at one time
MaxTime == 3        \* readings of the clock
MaxPage == 2        \* largest offset / limit a caller supplies
MaxBatch == 2       \* longest request list given to batchGetNodes

\* ------------------------------------------------------ program constants
NoId == 0           \* defaultMemoryId = '' : no default configured
DefaultOffset == 0  \* pagination?.offset || 0
DefaultLimit == 50  \* pagination?.limit || 50

VARIABLES
  backend,          \* "local" or "remote": which MemoryService the process runs
  defaultMemoryId,  \* MemoryService.defaultMemoryId
  storage,          \* the node-persist medium: key -> serialized item
  nextId,           \* number of ids generateMemoryId has produced
  now,              \* the clock read by new Date()
  rpcEndpoint,      \* TRUE iff process.env.MMP_RPC_ENDPOINT is set
  rpcSent,          \* requests the last remote operation put on the wire
  call,             \* the last service call: its method and its params
  resp,             \* outcome of the last service call
  tasks             \* calls whose awaited steps interleave: caller -> position

vars ==
  <<backend, defaultMemoryId, storage, nextId, now, rpcEndpoint, rpcSent, call, resp, tasks>>

\* ------------------------------------------------------------ JS helpers
Has(o, k) == k \in DOMAIN o

\* { ...a, ...b }
Spread(a, b) == b @@ a

\* o.k = v
Put(o, k, v) == (k :> v) @@ o

\* String.prototype.startsWith on character sequences
StartsWith(s, prefix) ==
  /\ Len(prefix) <= Len(s)
  /\ SubSeq(s, 1, Len(prefix)) = prefix

Min(a, b) == IF a <= b THEN a ELSE b
Max(a, b) == IF a >= b THEN a ELSE b

\* Array.prototype.slice(start, end) for start, end >= 0
Slice(s, start, end) ==
  LET lo == Min(start, Len(s))
      hi == Min(end, Len(s))
  IN IF lo >= hi THEN <<>> ELSE SubSeq(s, lo + 1, hi)

\* JSON.stringify / JSON.parse of an object: the text holds one member per
\* defined property.
Stringify(o) == { <<k, o[k]>> : k \in DOMAIN o }
Parse(text) == [k \in { m[1] : m \in text } |-> (CHOOSE m \in text : m[1] = k)[2]]

\* Whitespace as String.prototype.trim sees it (the characters the inputs use)
IsSpace(c) == c \in {" ", "\t"}

RECURSIVE TrimStart(_)
TrimStart(s) == IF Len(s) > 0 /\ IsSpace(Head(s)) THEN TrimStart(Tail(s)) ELSE s

RECURSIVE TrimEnd(_)
TrimEnd(s) ==
  IF Len(s) > 0 /\ IsSpace(s[Len(s)]) THEN TrimEnd(SubSeq(s, 1, Len(s) - 1)) ELSE s

\* String.prototype.trim on character sequences
Trim(s) == TrimEnd(TrimStart(s))

\* -------------------------------------------------------------- input sets
Slash == "/"
PathOrder == << <<"a">>, <<"a", Slash, "b">>, <<"a", "b">> >>
Paths == { PathOrder[i] : i \in 1..Len(PathOrder) }

\* ids a caller or the configuration names: none (''), the first collection,
\* the second collection
Ids == {NoId} \cup 1..2

NodeFull ==
  [name |-> "n1", type |-> "json", description |-> "d1", attention |-> "a1",
   needInit |-> TRUE, format |-> "f1", content |-> <<"x">>]
NodeBare == [name |-> "n2", type |-> "markdown"]
NodeDone == [name |-> "n3", type |-> "json", needInit |-> FALSE, content |-> <<>>]

\* nodes a caller passes to addNode
NodeInputs ==
  { Put(NodeFull, "path", PathOrder[1]),
    Put(NodeBare, "path", PathOrder[1]),
    Put(NodeBare, "path", PathOrder[2]),
    Put(NodeDone, "path", PathOrder[3]) }

\* params of createMemory
CreateInputs == { [name |-> "N", description |-> "D", metadata |-> "M"] }

\* (path, updates) pairs a caller passes to updateNode
UpdateInputs ==
  { [path |-> PathOrder[2], updates |-> [content |-> <<"y">>, needInit |-> FALSE]] }

\* more updateNode calls: fields replaced, fields added, no field at all
UpdateCalls ==
  UpdateInputs \cup
  { [path |-> PathOrder[1],
     updates |-> [name |-> "n9", content |-> <<"y">>, needInit |-> FALSE]],
    [path |-> PathOrder[1], updates |-> [attention |-> "a2"]],
    [path |-> PathOrder[3], updates |-> <<>>] }

\* filters of listNodes: an object with optional path, type, needInit
FilterPaths == { <<>>, <<"a">>, <<"a", Slash>> }
AllFilters ==
  { Spread(Spread(fp, ft), fn) :
      fp \in {<<>>} \cup { [path |-> p] : p \in FilterPaths },
      ft \in {<<>>, [type |-> "json"]},
      fn \in {<<>>} \cup { [needInit |-> b] : b \in BOOLEAN } }

\* paginations of listNodes: an object with optional offset, limit
AllPaginations ==
  { Spread(po, pl) :
      po \in {<<>>} \cup { [offset |-> n] : n \in 0..MaxPage },
      pl \in {<<>>} \cup { [limit |-> n] : n \in 0..MaxPage } }

\* filters of getInitNodes: an object with optional path
InitFilters == {<<>>} \cup { [path |-> p] : p \in FilterPaths }

\* the (filter, pagination) pairs and the filters the callers of the model use;
\* the properties of listing range over AllFilters and AllPaginations
ListCalls ==
  { <<<<>>, <<>>>>,
    <<[path |-> <<"a">>], [offset |-> 1, limit |-> 1]>>,
    <<[path |-> <<"a">>, needInit |-> FALSE], <<>>>>,
    <<<<>>, [limit |-> 0]>>,
    <<[type |-> "json"], [offset |-> MaxPage]>> }
InitCalls == { <<>>, [path |-> <<"a", Slash>>] }

\* templates a caller passes to applyTemplate
TplChild == Put(Put(NodeBare, "needInit", FALSE), "path", PathOrder[2])
TplDone == Put(NodeDone, "path", PathOrder[3])
TplFull == Put(NodeFull, "path", PathOrder[1])
TplEmpty == Put(Put(Put(NodeBare, "needInit", TRUE), "content", <<>>), "path", PathOrder[3])
TplBlank == Put(Put(Put(NodeBare, "needInit", TRUE), "content", <<" ">>), "path", PathOrder[3])
TplNoContent == Put(Put(NodeBare, "needInit", TRUE), "path", PathOrder[3])
TplTwice == Put(Put(NodeFull, "name", "n4"), "path", PathOrder[1])
Templates ==
  { <<TplFull, TplChild>>,
    <<TplFull, TplTwice>>,
    <<TplChild, TplEmpty>>,
    <<TplChild, TplBlank>>,
    <<TplNoContent, TplChild>> }

\* request items of batchGetNodes
BatchItems == { [path |-> PathOrder[1]], [memoryId |-> 2, path |-> PathOrder[1]] }

RECURSIVE SeqsUpTo(_, _)
SeqsUpTo(S, n) ==
  IF n = 0 THEN { <<>> }
  ELSE LET shorter == SeqsUpTo(S, n - 1)
       IN shorter \cup { Append(q, x) : q \in shorter, x \in S }

BatchInputs == SeqsUpTo(BatchItems, MaxBatch)

\* ---------------------------------------------------- the storage medium
memoryKey(id) == <<"memory", id>>
nodeKey(id, p) == <<"node", id, p>>

hasItem(st, k) == k \in DOMAIN st
setItem(st, k, v) == [x \in (DOMAIN st) \cup {k} |-> IF x = k THEN Stringify(v) ELSE st[x]]
removeItem(st, k) == [x \in (DOMAIN st) \ {k} |-> st[x]]

NodeCount(st) == Cardinality({ k \in DOMAIN st : k[1] = "node" })

\* ------------------------------------------------------- the storage layer
\* (the branches taken when isUsingRPC() is false)
\* a lookup that answers a made-up descriptor for an id it does not hold
getMemoryPlaceholder(st, memoryId) ==
  IF hasItem(st, memoryKey(memoryId)) THEN << Parse(st[memoryKey(memoryId)]) >>
  ELSE << [id |-> memoryId, name |-> "Memory", description |-> "Accessed via RPC",
           createdAt |-> 0] >>

getMemory(st, memoryId) ==
  IF hasItem(st, memoryKey(memoryId)) THEN << Parse(st[memoryKey(memoryId)]) >> ELSE <<>>

saveMemory(st, memory) == setItem(st, memoryKey(memory.id), memory)

\* a lookup that takes the first stored key beginning with the wanted key
getNodeByPrefix(st, memoryId, nodePath) ==
  LET hit(p) == hasItem(st, nodeKey(memoryId, p)) /\ StartsWith(p, nodePath)
      ps == SelectSeq(PathOrder, hit)
  IN IF Len(ps) > 0 THEN << Parse(st[nodeKey(memoryId, ps[1])]) >> ELSE <<>>

getNode(st, memoryId, nodePath) ==
  IF hasItem(st, nodeKey(memoryId, nodePath))
  THEN << Parse(st[nodeKey(memoryId, nodePath)]) >>
  ELSE <<>>

\* a saveNode that normalises the node: an absent needInit is stored as false
saveNodeNormalised(st, memoryId, node, t) ==
  LET n0 == IF ~Has(node, "needInit") THEN Put(node, "needInit", FALSE) ELSE node
      n1 == IF ~Has(n0, "createdAt") THEN Put(n0, "createdAt", t) ELSE n0
      n2 == Put(n1, "updatedAt", t)
      s1 == setItem(st, nodeKey(memoryId, n2.path), n2)
      memory == getMemory(s1, memoryId)
      s2 == IF Len(memory) > 0
            THEN saveMemory(s1, Put(memory[1], "updatedAt", t))
            ELSE s1
  IN [storage |-> s2, node |-> n2]

\* a saveNode that stamps createdAt on every save
saveNodeRestamp(st, memoryId, node, t) ==
  LET n1 == Put(node, "createdAt", t)
      n2 == Put(n1, "updatedAt", t)
      s1 == setItem(st, nodeKey(memoryId, n2.path), n2)
      memory == getMemory(s1, memoryId)
      s2 == IF Len(memory) > 0
            THEN saveMemory(s1, Put(memory[1], "updatedAt", t))
            ELSE s1
  IN [storage |-> s2, node |-> n2]

saveNode(st, memoryId, node, t) ==
  LET n1 == IF ~Has(node, "createdAt") THEN Put(node, "createdAt", t) ELSE node
      n2 == Put(n1, "updatedAt", t)
      s1 == setItem(st, nodeKey(memoryId, n2.path), n2)
      memory == getMemory(s1, memoryId)
      s2 == IF Len(memory) > 0
            THEN saveMemory(s1, Put(memory[1], "updatedAt", t))
            ELSE s1
  IN [storage |-> s2, node |-> n2]

deleteNode(st, memoryId, nodePath) ==
  [storage |-> removeItem(st, nodeKey(memoryId, nodePath)), success |-> TRUE]

\* storage.keys() lists the node keys of one collection in the order PathOrder
getAllNodes(st, memoryId) ==
  LET stored(p) == hasItem(st, nodeKey(memoryId, p))
      ps == SelectSeq(PathOrder, stored)
  IN [i \in 1..Len(ps) |-> Parse(st[nodeKey(memoryId, ps[i])])]

\* pathPrefix, type, needInit are optional arguments (length 0: undefined)
\* a matching that tests needInit by truthiness: needInit && ...
NodeMatchesTruthy(node, pathPrefix, type, needInit) ==
  /\ ~(Len(pathPrefix) > 0 /\ Len(pathPrefix[1]) > 0 /\ ~StartsWith(node.path, pathPrefix[1]))
  /\ ~(Len(type) > 0 /\ type[1] # "" /\ node.type # type[1])
  /\ ~(Len(needInit) > 0 /\ needInit[1]
        /\ ~(Has(node, "needInit") /\ node.needInit = needInit[1]))

NodeMatches(node, pathPrefix, type, needInit) ==
  /\ ~(Len(pathPrefix) > 0 /\ Len(pathPrefix[1]) > 0 /\ ~StartsWith(node.path, pathPrefix[1]))
  /\ ~(Len(type) > 0 /\ type[1] # "" /\ node.type # type[1])
  /\ ~(Len(needInit) > 0 /\ ~(Has(node, "needInit") /\ node.needInit = needInit[1]))

getFilteredNodes(st, memoryId, pathPrefix, type, needInit) ==
  LET keep(node) == NodeMatches(node, pathPrefix, type, needInit)
  IN SelectSeq(getAllNodes(st, memoryId), keep)

\* a child list without the prefix test: every node of the collection
getChildNodePathsAll(st, memoryId, parentPath) ==
  LET nodes == getAllNodes(st, memoryId)
  IN [i \in 1..Len(nodes) |-> nodes[i].path]

\* a child test on the bare prefix: startsWith(parentPath)
getChildNodePathsNoSlash(st, memoryId, parentPath) ==
  LET isChild(node) == StartsWith(node.path, parentPath)
      children == SelectSeq(getAllNodes(st, memoryId), isChild)
  IN [i \in 1..Len(children) |-> children[i].path]

\* a child test with the separator doubled: startsWith(parentPath + '//')
getChildNodePathsDoubleSlash(st, memoryId, parentPath) ==
  LET isChild(node) == StartsWith(node.path, parentPath \o <<Slash, Slash>>)
      children == SelectSeq(getAllNodes(st, memoryId), isChild)
  IN [i \in 1..Len(children) |-> children[i].path]

getChildNodePaths(st, memoryId, parentPath) ==
  LET isChild(node) == StartsWith(node.path, parentPath \o <<Slash>>)
      children == SelectSeq(getAllNodes(st, memoryId), isChild)
  IN [i \in 1..Len(children) |-> children[i].path]

\* an existence test that looks the path up without its collection
nodePathExistsUnscoped(st, memoryId, nodePath) == Len(getNode(st, NoId, nodePath)) > 0

nodePathExists(st, memoryId, nodePath) == Len(getNode(st, memoryId, nodePath)) > 0

\* ------------------------------------------------------------ the caller
\* the callers whose calls may be in flight together
Callers == {"c1", "c2"}

\* Calls are made one at a time: a call is issued when no response is
\* pending, and Return hands the response to the caller.
Idle == call.op = "idle"

\* ------------------------------------------------------ the Local service
\* params.memoryId || this.defaultMemoryId
LocalMemoryId(pid) == IF pid # NoId THEN pid ELSE defaultMemoryId

Fail(op, kind) == [op |-> op, err |-> kind]

\* o?.k as an optional argument
Opt(o, k) == IF Has(o, k) THEN << o[k] >> ELSE <<>>

\* o.k || dflt for a string or number property
OrElse(o, k, falsy, dflt) == IF Has(o, k) /\ o[k] # falsy THEN o[k] ELSE dflt

LocalFrame == UNCHANGED <<backend, defaultMemoryId, nextId, now, rpcEndpoint, rpcSent, tasks>>

LocalCreateMemory(params) ==
  /\ backend = "local"
  /\ Idle
  /\ call' = [op |-> "createMemory", params |-> params]
  /\ nextId < MaxMemories
  /\ LET id == nextId + 1
         memory == Spread([id |-> id, name |-> params.name,
                           description |-> params.description, createdAt |-> now],
                          IF Has(params, "metadata")
                          THEN [metadata |-> params.metadata] ELSE <<>>)
     IN /\ storage' = saveMemory(storage, memory)
        /\ nextId' = id
        /\ resp' = [op |-> "createMemory", err |-> "none", id |-> id, name |-> memory.name,
                    description |-> memory.description, createdAt |-> memory.createdAt]
  /\ UNCHANGED <<backend, defaultMemoryId, now, rpcEndpoint, rpcSent, tasks>>

LocalGetInitNodesResult(pid, filter) ==
  LET memoryId == LocalMemoryId(pid) IN
    IF memoryId = NoId THEN Fail("getInitNodes", "Configuration")
    ELSE IF Len(getMemory(storage, memoryId)) = 0 THEN Fail("getInitNodes", "NotFound")
    ELSE LET nodes == getFilteredNodes(storage, memoryId, Opt(filter, "path"), <<>>, <<TRUE>>)
         IN [op |-> "getInitNodes", err |-> "none",
             nodes |-> [i \in 1..Len(nodes) |->
                          [path |-> nodes[i].path, name |-> nodes[i].name,
                           description |-> OrElse(nodes[i], "description", "", ""),
                           attention |-> OrElse(nodes[i], "attention", "", "")]]]

LocalGetInitNodes(pid, filter) ==
  /\ backend = "local"
  /\ Idle
  /\ call' = [op |-> "getInitNodes", memoryId |-> pid, filter |-> filter]
  /\ resp' = LocalGetInitNodesResult(pid, filter)
  /\ UNCHANGED storage
  /\ LocalFrame

LocalAddNode(pid, node) ==
  /\ backend = "local"
  /\ Idle
  /\ call' = [op |-> "addNode", memoryId |-> pid, node |-> node]
  /\ LET memoryId == LocalMemoryId(pid) IN
       IF memoryId = NoId
       THEN resp' = Fail("addNode", "Configuration") /\ UNCHANGED storage
       ELSE IF Len(getMemory(storage, memoryId)) = 0
       THEN resp' = Fail("addNode", "NotFound") /\ UNCHANGED storage
       ELSE IF nodePathExists(storage, memoryId, node.path)
       THEN resp' = Fail("addNode", "Conflict") /\ UNCHANGED storage
       ELSE /\ NodeCount(storage) < MaxNodes
            /\ storage' = saveNode(storage, memoryId, node, now).storage
            /\ resp' = [op |-> "addNode", err |-> "none", path |-> node.path]
  /\ LocalFrame

LocalGetNodeResult(pid, path) ==
  LET memoryId == LocalMemoryId(pid) IN
    IF memoryId = NoId THEN Fail("getNode", "Configuration")
    ELSE IF Len(getMemory(storage, memoryId)) = 0 THEN Fail("getNode", "NotFound")
    ELSE IF Len(getNode(storage, memoryId, path)) = 0 THEN Fail("getNode", "NotFound")
    ELSE [op |-> "getNode", err |-> "none", node |-> getNode(storage, memoryId, path)[1]]

LocalGetNode(pid, path) ==
  /\ backend = "local"
  /\ Idle
  /\ call' = [op |-> "getNode", memoryId |-> pid, path |-> path]
  /\ resp' = LocalGetNodeResult(pid, path)
  /\ UNCHANGED storage
  /\ LocalFrame

LocalListNodesResult(pid, filter, pagination) ==
  LET memoryId == LocalMemoryId(pid) IN
    IF memoryId = NoId THEN Fail("listNodes", "Configuration")
    ELSE IF Len(getMemory(storage, memoryId)) = 0 THEN Fail("listNodes", "NotFound")
    ELSE LET nodes == getFilteredNodes(storage, memoryId, Opt(filter, "path"),
                                       Opt(filter, "type"), Opt(filter, "needInit"))
             offset == OrElse(pagination, "offset", 0, DefaultOffset)
             limit == OrElse(pagination, "limit", 0, DefaultLimit)
             pagedNodes == Slice(nodes, offset, offset + limit)
         IN [op |-> "listNodes", err |-> "none", total |-> Len(nodes),
             nodes |-> [i \in 1..Len(pagedNodes) |->
                          [path |-> pagedNodes[i].path, name |-> pagedNodes[i].name,
                           description |-> OrElse(pagedNodes[i], "description", "", "")]]]

LocalListNodes(pid, filter, pagination) ==
  /\ backend = "local"
  /\ Idle
  /\ call' = [op |-> "listNodes", memoryId |-> pid, filter |-> filter, pagination |-> pagination]
  /\ resp' = LocalListNodesResult(pid, filter, pagination)
  /\ UNCHANGED storage
  /\ LocalFrame

\* an update that stores the supplied fields in place of the node
LocalUpdateNodeReplace(pid, path, updates) ==
  /\ backend = "local"
  /\ Idle
  /\ call' = [op |-> "updateNode", memoryId |-> pid, path |-> path, updates |-> updates]
  /\ LET memoryId == LocalMemoryId(pid) IN
       IF memoryId = NoId
       THEN resp' = Fail("updateNode", "Configuration") /\ UNCHANGED storage
       ELSE IF Len(getMemory(storage, memoryId)) = 0
       THEN resp' = Fail("updateNode", "NotFound") /\ UNCHANGED storage
       ELSE IF Len(getNode(storage, memoryId, path)) = 0
       THEN resp' = Fail("updateNode", "NotFound") /\ UNCHANGED storage
       ELSE LET updatedNode == Put(updates, "path", path)
                saved == saveNode(storage, memoryId, updatedNode, now)
            IN /\ storage' = saved.storage
               /\ resp' = [op |-> "updateNode", err |-> "none", path |-> saved.node.path,
                           updatedAt |-> saved.node.updatedAt]
  /\ LocalFrame

LocalUpdateNode(pid, path, updates) ==
  /\ backend = "local"
  /\ Idle
  /\ call' = [op |-> "updateNode", memoryId |-> pid, path |-> path, updates |-> updates]
  /\ LET memoryId == LocalMemoryId(pid) IN
       IF memoryId = NoId
       THEN resp' = Fail("updateNode", "Configuration") /\ UNCHANGED storage
       ELSE IF Len(getMemory(storage, memoryId)) = 0
       THEN resp' = Fail("updateNode", "NotFound") /\ UNCHANGED storage
       ELSE IF Len(getNode(storage, memoryId, path)) = 0
       THEN resp' = Fail("updateNode", "NotFound") /\ UNCHANGED storage
       ELSE LET existingNode == getNode(storage, memoryId, path)[1]
                updatedNode == Put(Spread(existingNode, updates), "path", path)
                saved == saveNode(storage, memoryId, updatedNode, now)
            IN /\ storage' = saved.storage
               /\ resp' = [op |-> "updateNode", err |-> "none", path |-> saved.node.path,
                           updatedAt |-> saved.node.updatedAt]
  /\ LocalFrame

\* for (const pathToDelete of pathsToDelete) { ... deletedCount++ }
RECURSIVE DeleteLoop(_, _, _, _)
DeleteLoop(st, memoryId, pathsToDelete, deletedCount) ==
  IF Len(pathsToDelete) = 0
  THEN [storage |-> st, deletedCount |-> deletedCount]
  ELSE LET r == deleteNode(st, memoryId, Head(pathsToDelete))
       IN DeleteLoop(r.storage, memoryId, Tail(pathsToDelete),
                     IF r.success THEN deletedCount + 1 ELSE deletedCount)

LocalDeleteNode(pid, path, recursive) ==
  /\ backend = "local"
  /\ Idle
  /\ call' = [op |-> "deleteNode", memoryId |-> pid, path |-> path, recursive |-> recursive]
  /\ LET memoryId == LocalMemoryId(pid) IN
       IF memoryId = NoId
       THEN resp' = Fail("deleteNode", "Configuration") /\ UNCHANGED storage
       ELSE IF Len(getMemory(storage, memoryId)) = 0
       THEN resp' = Fail("deleteNode", "NotFound") /\ UNCHANGED storage
       ELSE IF Len(getNode(storage, memoryId, path)) = 0
       THEN resp' = Fail("deleteNode", "NotFound") /\ UNCHANGED storage
       ELSE LET childPaths == getChildNodePaths(storage, memoryId, path) IN
            IF ~recursive /\ Len(childPaths) > 0
            THEN resp' = Fail("deleteNode", "Conflict") /\ UNCHANGED storage
            ELSE LET pathsToDelete == <<path>> \o (IF recursive THEN childPaths ELSE <<>>)
                     done == DeleteLoop(storage, memoryId, pathsToDelete, 0)
                 IN /\ storage' = done.storage
                    /\ resp' = [op |-> "deleteNode", err |-> "none",
                                success |-> done.deletedCount > 0,
                                deletedCount |-> done.deletedCount]
  /\ LocalFrame

\* a validation that tests the content without trimming it
TemplateNodeInvalidNoTrim(node) ==
  node.needInit /\ (~Has(node, "content") \/ node.content = <<>>)

\* node.needInit && (!node.content || node.content.trim() === '')
TemplateNodeInvalid(node) ==
  node.needInit /\ (~Has(node, "content") \/ node.content = <<>> \/ Trim(node.content) = <<>>)

\* a loop that saves every entry and skips only the recording of existing paths
RECURSIVE TemplateLoopOverwrite(_, _, _, _, _)
TemplateLoopOverwrite(st, memoryId, template, createdNodes, t) ==
  IF Len(template) = 0
  THEN [storage |-> st, createdNodes |-> createdNodes]
  ELSE LET templateNode == Head(template) IN
       TemplateLoopOverwrite(saveNode(st, memoryId, templateNode, t).storage, memoryId,
                             Tail(template),
                             IF nodePathExists(st, memoryId, templateNode.path)
                             THEN createdNodes
                             ELSE Append(createdNodes, [path |-> templateNode.path,
                                                        needInit |-> templateNode.needInit]),
                             t)

\* a loop that records every entry, the skipped ones included
RECURSIVE TemplateLoopRecordAll(_, _, _, _, _)
TemplateLoopRecordAll(st, memoryId, template, createdNodes, t) ==
  IF Len(template) = 0
  THEN [storage |-> st, createdNodes |-> createdNodes]
  ELSE LET templateNode == Head(template)
               recorded == Append(createdNodes, [path |-> templateNode.path,
                                                 needInit |-> templateNode.needInit])
       IN IF nodePathExists(st, memoryId, templateNode.path)
          THEN TemplateLoopRecordAll(st, memoryId, Tail(template), recorded, t)
          ELSE TemplateLoopRecordAll(saveNode(st, memoryId, templateNode, t).storage,
                                     memoryId, Tail(template), recorded, t)

\* for (const templateNode of template) { ... createdNodes.push(...) }
RECURSIVE TemplateLoop(_, _, _, _, _)
TemplateLoop(st, memoryId, template, createdNodes, t) ==
  IF Len(template) = 0
  THEN [storage |-> st, createdNodes |-> createdNodes]
  ELSE LET templateNode == Head(template) IN
       IF nodePathExists(st, memoryId, templateNode.path)
       THEN TemplateLoop(st, memoryId, Tail(template), createdNodes, t)
       ELSE TemplateLoop(saveNode(st, memoryId, templateNode, t).storage, memoryId,
                         Tail(template),
                         Append(createdNodes, [path |-> templateNode.path,
                                               needInit |-> templateNode.needInit]),
                         t)

\* what applyTemplate leaves in the medium and what it answers
LocalApplyTemplateResult(pid, template) ==
  LET memoryId == LocalMemoryId(pid) IN
    IF memoryId = NoId
    THEN [storage |-> storage, resp |-> Fail("applyTemplate", "Configuration")]
    ELSE IF Len(getMemory(storage, memoryId)) = 0
    THEN [storage |-> storage, resp |-> Fail("applyTemplate", "NotFound")]
    ELSE IF \E i \in 1..Len(template) : TemplateNodeInvalid(template[i])
    THEN [storage |-> storage, resp |-> Fail("applyTemplate", "Validation")]
    ELSE LET done == TemplateLoop(storage, memoryId, template, <<>>, now)
         IN [storage |-> done.storage,
             resp |-> [op |-> "applyTemplate", err |-> "none", memoryId |-> memoryId,
                       success |-> TRUE, createdNodes |-> done.createdNodes]]

LocalApplyTemplate(pid, template) ==
  /\ backend = "local"
  /\ Idle
  /\ call' = [op |-> "applyTemplate", memoryId |-> pid, template |-> template]
  /\ LET done == LocalApplyTemplateResult(pid, template)
     IN /\ NodeCount(done.storage) <= MaxNodes
        /\ storage' = done.storage
        /\ resp' = done.resp
  /\ LocalFrame

\* a loop whose first failing item ends the batch with the results so far
RECURSIVE BatchLoopAbort(_, _)
BatchLoopAbort(requests, results) ==
  IF Len(requests) = 0 THEN results
  ELSE LET request == Head(requests)
           memoryId == LocalMemoryId(OrElse(request, "memoryId", NoId, NoId))
       IN IF memoryId = NoId
          THEN results
          ELSE LET got == LocalGetNodeResult(memoryId, request.path)
               IN IF got.err = "none"
                  THEN BatchLoopAbort(Tail(requests), Append(results, got.node))
                  ELSE results

\* for (const request of requests) { try { ... results.push(node) } catch { } }
RECURSIVE BatchLoop(_, _)
BatchLoop(requests, results) ==
  IF Len(requests) = 0 THEN results
  ELSE LET request == Head(requests)
           memoryId == LocalMemoryId(OrElse(request, "memoryId", NoId, NoId))
       IN IF memoryId = NoId
          THEN BatchLoop(Tail(requests), results)
          ELSE LET got == LocalGetNodeResult(memoryId, request.path)
               IN BatchLoop(Tail(requests),
                            IF got.err = "none" THEN Append(results, got.node) ELSE results)

LocalBatchGetNodesResult(requests) ==
  [op |-> "batchGetNodes", err |-> "none", nodes |-> BatchLoop(requests, <<>>)]

LocalBatchGetNodes(requests) ==
  /\ backend = "local"
  /\ Idle
  /\ call' = [op |-> "batchGetNodes", requests |-> requests]
  /\ resp' = LocalBatchGetNodesResult(requests)
  /\ UNCHANGED storage
  /\ LocalFrame

\* ------------------------------------------ the Remote-forwarding service
\* the resolution with the operands exchanged: params.memoryId || this.defaultMemoryId
RemoteMemoryIdCallerFirst(pid) == IF pid # NoId THEN pid ELSE defaultMemoryId

\* this.defaultMemoryId || params.memoryId
RemoteMemoryId(pid) == IF defaultMemoryId # NoId THEN defaultMemoryId ELSE pid

\* what the remote delegate makes of one request
RpcOutcomes == {"ok", "transport", "http", "rpcerror"}

RemoteFrame ==
  UNCHANGED <<backend, defaultMemoryId, storage, nextId, now, rpcEndpoint, tasks>>

\* a sender that posts the request once more when the first exchange fails
sendRpcRequestRetry(op, method, params) ==
  IF ~rpcEndpoint
  THEN rpcSent' = <<>> /\ resp' = Fail(op, "Configuration")
  ELSE \E first \in RpcOutcomes, second \in RpcOutcomes :
         LET exchange(outcome) == [method |-> method, params |-> params, outcome |-> outcome]
             last == IF first = "ok" THEN first ELSE second
         IN /\ rpcSent' = IF first = "ok" THEN << exchange(first) >>
                          ELSE << exchange(first), exchange(second) >>
            /\ resp' = IF last = "ok" THEN [op |-> op, err |-> "none", result |-> method]
                       ELSE Fail(op, "Upstream")

\* One fetch of method with params; the caller gets the result or the error.
\* rpcSent keeps the request with what the delegate made of it.
sendRpcRequest(op, method, params) ==
  IF ~rpcEndpoint
  THEN rpcSent' = <<>> /\ resp' = Fail(op, "Configuration")
  ELSE \E outcome \in RpcOutcomes :
         /\ rpcSent' = << [method |-> method, params |-> params, outcome |-> outcome] >>
         /\ resp' = IF outcome = "ok" THEN [op |-> op, err |-> "none", result |-> method]
                    ELSE Fail(op, "Upstream")

\* a forwarding that sends the request without testing the resolved id
ForwardUnguarded(op, method, params) ==
  LET pid == OrElse(params, "memoryId", NoId, NoId)
  IN sendRpcRequest(op, method, Put(params, "memoryId", RemoteMemoryId(pid)))

\* the guard and the forwarding shared by the seven single-collection methods
Forward(op, method, params) ==
  LET pid == OrElse(params, "memoryId", NoId, NoId)
      memoryId == RemoteMemoryId(pid)
  IN IF memoryId = NoId
     THEN rpcSent' = <<>> /\ resp' = Fail(op, "Configuration")
     ELSE sendRpcRequest(op, method, Put(params, "memoryId", memoryId))

RemoteCreateMemory(params) ==
  /\ backend = "remote"
  /\ Idle
  /\ call' = [op |-> "createMemory", params |-> params]
  /\ sendRpcRequest("createMemory", "memManager.Create", params)
  /\ RemoteFrame

RemoteGetInitNodes(params) ==
  /\ backend = "remote"
  /\ Idle
  /\ call' = [op |-> "getInitNodes", params |-> params]
  /\ Forward("getInitNodes", "memory.GetInitNodes", params)
  /\ RemoteFrame

RemoteAddNode(params) ==
  /\ backend = "remote"
  /\ Idle
  /\ call' = [op |-> "addNode", params |-> params]
  /\ Forward("addNode", "memory.Add", params)
  /\ RemoteFrame

RemoteGetNode(params) ==
  /\ backend = "remote"
  /\ Idle
  /\ call' = [op |-> "getNode", params |-> params]
  /\ Forward("getNode", "memory.Get", params)
  /\ RemoteFrame

RemoteListNodes(params) ==
  /\ backend = "remote"
  /\ Idle
  /\ call' = [op |-> "listNodes", params |-> params]
  /\ Forward("listNodes", "memory.List", params)
  /\ RemoteFrame

RemoteUpdateNode(params) ==
  /\ backend = "remote"
  /\ Idle
  /\ call' = [op |-> "updateNode", params |-> params]
  /\ Forward("updateNode", "memory.Update", params)
  /\ RemoteFrame

RemoteDeleteNode(params) ==
  /\ backend = "remote"
  /\ Idle
  /\ call' = [op |-> "deleteNode", params |-> params]
  /\ Forward("deleteNode", "memory.Delete", params)
  /\ RemoteFrame

RemoteApplyTemplate(params) ==
  /\ backend = "remote"
  /\ Idle
  /\ call' = [op |-> "applyTemplate", params |-> params]
  /\ Forward("applyTemplate", "memManager.ApplyTemplate", params)
  /\ RemoteFrame

RemoteBatchGetNodes(params) ==
  /\ backend = "remote"
  /\ Idle
  /\ call' = [op |-> "batchGetNodes", params |-> params]
  /\ LET requests == [i \in 1..Len(params.requests) |->
                        Put(params.requests[i], "memoryId",
                            RemoteMemoryId(OrElse(params.requests[i], "memoryId", NoId, NoId)))]
     IN IF \E i \in 1..Len(requests) : requests[i].memoryId = NoId
        THEN rpcSent' = <<>> /\ resp' = Fail("batchGetNodes", "Configuration")
        ELSE sendRpcRequest("batchGetNodes", "memory.Batch", [requests |-> requests])
  /\ RemoteFrame

\* params of the remote methods: the caller's id (possibly none or '') and a
\* payload, which is forwarded untouched
RemoteInputs ==
  { [payload |-> "p"] } \cup { [memoryId |-> id, payload |-> "p"] : id \in Ids }

\* ------------------------------------------------------------ environment
setDefaultMemoryId(memoryId) ==
  /\ Idle
  /\ defaultMemoryId' = memoryId
  /\ UNCHANGED <<backend, storage, nextId, now, rpcEndpoint, rpcSent, call, resp, tasks>>

Return ==
  /\ ~Idle
  /\ call' = [op |-> "idle"]
  /\ resp' = [op |-> "idle", err |-> "none"]
  /\ rpcSent' = <<>>
  /\ UNCHANGED <<backend, defaultMemoryId, storage, nextId, now, rpcEndpoint, tasks>>

Tick ==
  /\ Idle
  /\ now < MaxTime
  /\ now' = now + 1
  /\ UNCHANGED <<backend, defaultMemoryId, storage, nextId, rpcEndpoint, rpcSent, call, resp, tasks>>

Init ==
  /\ backend \in {"local", "remote"}
  /\ defaultMemoryId = NoId
  /\ storage = <<>>
  /\ nextId = 0
  /\ now = 1
  /\ rpcEndpoint \in (IF backend = "remote" THEN BOOLEAN ELSE {FALSE})
  /\ rpcSent = <<>>
  /\ call = [op |-> "idle"]
  /\ resp = [op |-> "idle", err |-> "none"]
  /\ tasks = [t \in Callers |-> [pc |-> "none"]]

Next ==
  \/ \E params \in CreateInputs : LocalCreateMemory(params)
  \/ \E pid \in Ids, filter \in InitCalls : LocalGetInitNodes(pid, filter)
  \/ \E pid \in Ids, node \in NodeInputs : LocalAddNode(pid, node)
  \/ \E pid \in Ids, path \in Paths : LocalGetNode(pid, path)
  \/ \E pid \in Ids, lc \in ListCalls : LocalListNodes(pid, lc[1], lc[2])
  \/ \E pid \in Ids, u \in UpdateInputs : LocalUpdateNode(pid, u.path, u.updates)
  \/ \E pid \in Ids, path \in Paths, recursive \in BOOLEAN :
       LocalDeleteNode(pid, path, recursive)
  \/ \E pid \in Ids, template \in Templates : LocalApplyTemplate(pid, template)
  \/ \E requests \in BatchInputs : LocalBatchGetNodes(requests)
  \/ \E params \in CreateInputs : RemoteCreateMemory(params)
  \/ \E params \in RemoteInputs : RemoteGetInitNodes(params)
  \/ \E params \in RemoteInputs : RemoteAddNode(params)
  \/ \E params \in RemoteInputs : RemoteGetNode(params)
  \/ \E params \in RemoteInputs : RemoteListNodes(params)
  \/ \E params \in RemoteInputs : RemoteUpdateNode(params)
  \/ \E params \in RemoteInputs : RemoteDeleteNode(params)
  \/ \E params \in RemoteInputs : RemoteApplyTemplate(params)
  \/ \E requests \in BatchInputs : RemoteBatchGetNodes([requests |-> requests])
  \/ \E id \in Ids : setDefaultMemoryId(id)
  \/ Return

\* the calls that fall within one reading of the clock
Spec == Init /\ [][Next]_vars

\* one collection worked on while the clock advances
NextClock ==
  \/ \E params \in CreateInputs : nextId = 0 /\ LocalCreateMemory(params)
  \/ \E node \in NodeInputs : LocalAddNode(1, node)
  \/ \E path \in Paths : LocalGetNode(1, path)
  \/ \E u \in UpdateInputs : LocalUpdateNode(1, u.path, u.updates)
  \/ \E path \in Paths, recursive \in BOOLEAN : LocalDeleteNode(1, path, recursive)
  \/ \E template \in Templates : LocalApplyTemplate(1, template)
  \/ Return
  \/ Tick

\* the process is built with the Local service
InitLocal == Init /\ backend = "local"

SpecClock == InitLocal /\ [][NextClock]_vars

\* ------------------------------------ the storage layer called directly
\* deleteNode of the storage layer, called with a key that may or may not be
\* stored; the caller gets its boolean
StorageDeleteNode(memoryId, nodePath) ==
  /\ backend = "local"
  /\ Idle
  /\ call' = [op |-> "storage.deleteNode", memoryId |-> memoryId, path |-> nodePath]
  /\ LET r == deleteNode(storage, memoryId, nodePath)
     IN /\ storage' = r.storage
        /\ resp' = [op |-> "storage.deleteNode", err |-> "none", success |-> r.success]
  /\ LocalFrame

NextStore ==
  \/ \E params \in CreateInputs : LocalCreateMemory(params)
  \/ \E pid \in Ids, node \in NodeInputs : LocalAddNode(pid, node)
  \/ \E memoryId \in Ids \ {NoId}, nodePath \in Paths : StorageDeleteNode(memoryId, nodePath)
  \/ Return

SpecStore == InitLocal /\ [][NextStore]_vars

\* --------------------------------------------- nodes added and updated
\* one collection whose nodes are added and updated while the clock advances
NextUpdate ==
  \/ \E params \in CreateInputs : nextId = 0 /\ LocalCreateMemory(params)
  \/ \E node \in NodeInputs : LocalAddNode(1, node)
  \/ \E u \in UpdateCalls : LocalUpdateNode(1, u.path, u.updates)
  \/ \E path \in Paths : LocalGetNode(1, path)
  \/ Return
  \/ Tick

SpecUpdate == InitLocal /\ [][NextUpdate]_vars

\* ------------------------------------ calls during which the medium fails
\* The storage operation that fails during one call: the read of the
\* collection descriptor, the read of a node, the listing of the nodes, a
\* removal, a write.
Faults == {"getMemory", "getNode", "getAllNodes", "removeItem", "setItem"}

\* getMemory: catch (error) { return null }
getMemoryF(st, memoryId, fault) ==
  IF fault = "getMemory" THEN <<>> ELSE getMemory(st, memoryId)

\* getNode: catch (error) { return null }
getNodeF(st, memoryId, nodePath, fault) ==
  IF fault = "getNode" THEN <<>> ELSE getNode(st, memoryId, nodePath)

\* getAllNodes: catch (error) { return [] }, seen through getFilteredNodes
getFilteredNodesF(st, memoryId, pathPrefix, type, needInit, fault) ==
  IF fault = "getAllNodes" THEN <<>>
  ELSE getFilteredNodes(st, memoryId, pathPrefix, type, needInit)

\* getAllNodes: catch (error) { return [] }, seen through getChildNodePaths
getChildNodePathsF(st, memoryId, parentPath, fault) ==
  IF fault = "getAllNodes" THEN <<>> ELSE getChildNodePaths(st, memoryId, parentPath)

\* deleteNode: catch (error) { return false }
deleteNodeF(st, memoryId, nodePath, fault) ==
  IF fault = "removeItem" THEN [storage |-> st, success |-> FALSE]
  ELSE deleteNode(st, memoryId, nodePath)

\* saveNode: catch (error) { throw error }
saveNodeF(st, memoryId, node, t, fault) ==
  IF fault = "setItem" THEN [storage |-> st, err |-> "Storage"]
  ELSE [storage |-> saveNode(st, memoryId, node, t).storage, err |-> "none"]

\* the head of every Local method: resolve the id, read the collection
FaultyHead(pid, fault) ==
  IF LocalMemoryId(pid) = NoId THEN "Configuration"
  ELSE IF Len(getMemoryF(storage, LocalMemoryId(pid), fault)) = 0 THEN "NotFound"
  ELSE "none"

FaultyCall(fault) ==
  /\ backend = "local"
  /\ Idle
  /\ fault \in Faults
  /\ LocalFrame

FaultyGetNode(pid, path, fault) ==
  /\ FaultyCall(fault)
  /\ call' = [op |-> "getNode", memoryId |-> pid, path |-> path, fault |-> fault]
  /\ LET memoryId == LocalMemoryId(pid)
         head == FaultyHead(pid, fault)
     IN resp' = IF head # "none" THEN Fail("getNode", head)
                ELSE IF Len(getNodeF(storage, memoryId, path, fault)) = 0
                THEN Fail("getNode", "NotFound")
                ELSE [op |-> "getNode", err |-> "none",
                      node |-> getNodeF(storage, memoryId, path, fault)[1]]
  /\ UNCHANGED storage

FaultyAddNode(pid, node, fault) ==
  /\ FaultyCall(fault)
  /\ call' = [op |-> "addNode", memoryId |-> pid, node |-> node, fault |-> fault]
  /\ LET memoryId == LocalMemoryId(pid)
         head == FaultyHead(pid, fault)
     IN IF head # "none"
        THEN resp' = Fail("addNode", head) /\ UNCHANGED storage
        ELSE IF Len(getNodeF(storage, memoryId, node.path, fault)) > 0
        THEN resp' = Fail("addNode", "Conflict") /\ UNCHANGED storage
        ELSE LET saved == saveNodeF(storage, memoryId, node, now, fault)
             IN /\ NodeCount(saved.storage) <= MaxNodes
                /\ storage' = saved.storage
                /\ resp' = IF saved.err # "none" THEN Fail("addNode", saved.err)
                           ELSE [op |-> "addNode", err |-> "none", path |-> node.path]

FaultyListNodes(pid, filter, pagination, fault) ==
  /\ FaultyCall(fault)
  /\ call' = [op |-> "listNodes", memoryId |-> pid, filter |-> filter,
              pagination |-> pagination, fault |-> fault]
  /\ LET memoryId == LocalMemoryId(pid)
         head == FaultyHead(pid, fault)
         nodes == getFilteredNodesF(storage, memoryId, Opt(filter, "path"),
                                    Opt(filter, "type"), Opt(filter, "needInit"), fault)
         offset == OrElse(pagination, "offset", 0, DefaultOffset)
         limit == OrElse(pagination, "limit", 0, DefaultLimit)
         pagedNodes == Slice(nodes, offset, offset + limit)
     IN resp' = IF head # "none" THEN Fail("listNodes", head)
                ELSE [op |-> "listNodes", err |-> "none", total |-> Len(nodes),
                      nodes |-> [i \in 1..Len(pagedNodes) |->
                                   [path |-> pagedNodes[i].path, name |-> pagedNodes[i].name,
                                    description |-> OrElse(pagedNodes[i], "description", "", "")]]]
  /\ UNCHANGED storage

FaultyUpdateNode(pid, path, updates, fault) ==
  /\ FaultyCall(fault)
  /\ call' = [op |-> "updateNode", memoryId |-> pid, path |-> path, updates |-> updates,
              fault |-> fault]
  /\ LET memoryId == LocalMemoryId(pid)
         head == FaultyHead(pid, fault)
     IN IF head # "none"
        THEN resp' = Fail("updateNode", head) /\ UNCHANGED storage
        ELSE IF Len(getNodeF(storage, memoryId, path, fault)) = 0
        THEN resp' = Fail("updateNode", "NotFound") /\ UNCHANGED storage
        ELSE LET existingNode == getNodeF(storage, memoryId, path, fault)[1]
                 updatedNode == Put(Spread(existingNode, updates), "path", path)
                 saved == saveNodeF(storage, memoryId, updatedNode, now, fault)
             IN /\ storage' = saved.storage
                /\ resp' = IF saved.err # "none" THEN Fail("updateNode", saved.err)
                           ELSE [op |-> "updateNode", err |-> "none", path |-> path,
                                 updatedAt |-> getNode(saved.storage, memoryId, path)[1].updatedAt]

\* for (const pathToDelete of pathsToDelete) { ... deletedCount++ }
RECURSIVE FaultyDeleteLoop(_, _, _, _, _)
FaultyDeleteLoop(st, memoryId, pathsToDelete, deletedCount, fault) ==
  IF Len(pathsToDelete) = 0
  THEN [storage |-> st, deletedCount |-> deletedCount]
  ELSE LET r == deleteNodeF(st, memoryId, Head(pathsToDelete), fault)
       IN FaultyDeleteLoop(r.storage, memoryId, Tail(pathsToDelete),
                           IF r.success THEN deletedCount + 1 ELSE deletedCount, fault)

FaultyDeleteNode(pid, path, recursive, fault) ==
  /\ FaultyCall(fault)
  /\ call' = [op |-> "deleteNode", memoryId |-> pid, path |-> path,
              recursive |-> recursive, fault |-> fault]
  /\ LET memoryId == LocalMemoryId(pid)
         head == FaultyHead(pid, fault)
     IN IF head # "none"
        THEN resp' = Fail("deleteNode", head) /\ UNCHANGED storage
        ELSE IF Len(getNodeF(storage, memoryId, path, fault)) = 0
        THEN resp' = Fail("deleteNode", "NotFound") /\ UNCHANGED storage
        ELSE LET childPaths == getChildNodePathsF(storage, memoryId, path, fault) IN
             IF ~recursive /\ Len(childPaths) > 0
             THEN resp' = Fail("deleteNode", "Conflict") /\ UNCHANGED storage
             ELSE LET pathsToDelete == <<path>> \o (IF recursive THEN childPaths ELSE <<>>)
                      done == FaultyDeleteLoop(storage, memoryId, pathsToDelete, 0, fault)
                  IN /\ storage' = done.storage
                     /\ resp' = [op |-> "deleteNode", err |-> "none",
                                 success |-> done.deletedCount > 0,
                                 deletedCount |-> done.deletedCount]

\* one collection whose calls each meet one failing storage operation
NextFault ==
  \/ \E params \in CreateInputs : nextId = 0 /\ LocalCreateMemory(params)
  \/ \E node \in NodeInputs : LocalAddNode(1, node)
  \/ \E path \in Paths, fault \in Faults : FaultyGetNode(1, path, fault)
  \/ \E node \in NodeInputs, fault \in Faults : FaultyAddNode(1, node, fault)
  \/ \E lc \in ListCalls, fault \in Faults : FaultyListNodes(1, lc[1], lc[2], fault)
  \/ \E u \in UpdateInputs, fault \in Faults : FaultyUpdateNode(1, u.path, u.updates, fault)
  \/ \E path \in Paths, recursive \in BOOLEAN, fault \in Faults :
       FaultyDeleteNode(1, path, recursive, fault)
  \/ Return

SpecFault == InitLocal /\ [][NextFault]_vars

\* --------------------------------------------- calls in flight together
\* Each Local method is an async function: it runs up to an await, and the
\* awaited storage operations of the calls in flight interleave. A caller's
\* position is the await it is at, with the method's locals.
TaskFrame ==
  UNCHANGED <<backend, defaultMemoryId, nextId, now, rpcEndpoint, rpcSent, call, resp>>

\* no call is in flight
Quiet == \A t \in Callers : tasks[t].pc = "none"

\* the caller t is at the await named pc inside the method op
At(t, op, pc) == backend = "local" /\ Idle /\ tasks[t].pc = pc /\ tasks[t].op = op

\* the method of t ends: it throws kind, or it returns (kind "none")
Ended(t, kind) == [op |-> tasks[t].op, pc |-> "done", err |-> kind, args |-> tasks[t].args]

\* const memoryId = params.memoryId || this.defaultMemoryId; ... await getMemory
TaskCall(t, op, pid, args) ==
  /\ backend = "local"
  /\ Idle
  /\ tasks[t].pc = "none"
  /\ tasks' = [tasks EXCEPT ![t] =
       IF LocalMemoryId(pid) = NoId
       THEN [op |-> op, pc |-> "done", err |-> "Configuration", args |-> args]
       ELSE [op |-> op, pc |-> "getMemory", memoryId |-> LocalMemoryId(pid), args |-> args]]
  /\ UNCHANGED storage
  /\ TaskFrame

\* addNode, await by await
AddNodeCall(t, pid, node) == TaskCall(t, "addNode", pid, [memoryId |-> pid, node |-> node])

AddNodeGetMemory(t) ==
  /\ At(t, "addNode", "getMemory")
  /\ tasks' = [tasks EXCEPT ![t] =
       IF Len(getMemory(storage, tasks[t].memoryId)) = 0 THEN Ended(t, "NotFound")
       ELSE [@ EXCEPT !.pc = "nodePathExists"]]
  /\ UNCHANGED storage
  /\ TaskFrame

AddNodeExists(t) ==
  /\ At(t, "addNode", "nodePathExists")
  /\ tasks' = [tasks EXCEPT ![t] =
       IF nodePathExists(storage, tasks[t].memoryId, tasks[t].args.node.path)
       THEN Ended(t, "Conflict")
       ELSE [@ EXCEPT !.pc = "saveNode"]]
  /\ UNCHANGED storage
  /\ TaskFrame

AddNodeSave(t) ==
  /\ At(t, "addNode", "saveNode")
  /\ storage' = saveNode(storage, tasks[t].memoryId, tasks[t].args.node, now).storage
  /\ NodeCount(storage') <= MaxNodes
  /\ tasks' = [tasks EXCEPT ![t] =
       [op |-> "addNode", pc |-> "done", err |-> "none", args |-> tasks[t].args,
        path |-> tasks[t].args.node.path]]
  /\ TaskFrame

\* the store is built by whole calls, then the calls in flight are issued
NextAdd ==
  \/ \E params \in CreateInputs : nextId = 0 /\ LocalCreateMemory(params)
  \/ \E node \in NodeInputs : Quiet /\ LocalAddNode(1, node)
  \/ Return
  \/ \E t \in Callers, node \in NodeInputs : AddNodeCall(t, 1, node)
  \/ \E t \in Callers : AddNodeGetMemory(t)
  \/ \E t \in Callers : AddNodeExists(t)
  \/ \E t \in Callers : AddNodeSave(t)

SpecAdd == InitLocal /\ [][NextAdd]_vars

\* deleteNode, await by await
DeleteNodeCall(t, pid, path, recursive) ==
  TaskCall(t, "deleteNode", pid, [memoryId |-> pid, path |-> path, recursive |-> recursive])

DeleteNodeGetMemory(t) ==
  /\ At(t, "deleteNode", "getMemory")
  /\ tasks' = [tasks EXCEPT ![t] =
       IF Len(getMemory(storage, tasks[t].memoryId)) = 0 THEN Ended(t, "NotFound")
       ELSE [@ EXCEPT !.pc = "getNode"]]
  /\ UNCHANGED storage
  /\ TaskFrame

DeleteNodeGetNode(t) ==
  /\ At(t, "deleteNode", "getNode")
  /\ tasks' = [tasks EXCEPT ![t] =
       IF Len(getNode(storage, tasks[t].memoryId, tasks[t].args.path)) = 0
       THEN Ended(t, "NotFound")
       ELSE [@ EXCEPT !.pc = "getChildNodePaths"]]
  /\ UNCHANGED storage
  /\ TaskFrame

DeleteNodeChildren(t) ==
  /\ At(t, "deleteNode", "getChildNodePaths")
  /\ LET childPaths == getChildNodePaths(storage, tasks[t].memoryId, tasks[t].args.path)
     IN tasks' = [tasks EXCEPT ![t] =
          IF ~tasks[t].args.recursive /\ Len(childPaths) > 0
          THEN Ended(t, "Conflict")
          ELSE [op |-> "deleteNode", pc |-> "deleteNode", memoryId |-> tasks[t].memoryId,
                args |-> tasks[t].args,
                pathsToDelete |-> <<tasks[t].args.path>>
                                    \o (IF tasks[t].args.recursive THEN childPaths ELSE <<>>),
                deletedCount |-> 0]]
  /\ UNCHANGED storage
  /\ TaskFrame

\* one turn of the loop: const success = await deleteNode(memoryId, pathToDelete)
DeleteNodeRemove(t) ==
  /\ At(t, "deleteNode", "deleteNode")
  /\ LET r == deleteNode(storage, tasks[t].memoryId, Head(tasks[t].pathsToDelete))
         deletedCount == IF r.success THEN tasks[t].deletedCount + 1
                         ELSE tasks[t].deletedCount
         rest == Tail(tasks[t].pathsToDelete)
     IN /\ storage' = r.storage
        /\ tasks' = [tasks EXCEPT ![t] =
             IF Len(rest) > 0
             THEN [@ EXCEPT !.pathsToDelete = rest, !.deletedCount = deletedCount]
             ELSE [op |-> "deleteNode", pc |-> "done", err |-> "none", args |-> tasks[t].args,
                   success |-> deletedCount > 0, deletedCount |-> deletedCount]]
  /\ TaskFrame

NextDelete ==
  \/ \E params \in CreateInputs : nextId = 0 /\ LocalCreateMemory(params)
  \/ \E node \in NodeInputs : Quiet /\ LocalAddNode(1, node)
  \/ Return
  \/ \E t \in Callers, path \in Paths, recursive \in BOOLEAN :
       DeleteNodeCall(t, 1, path, recursive)
  \/ \E t \in Callers : DeleteNodeGetMemory(t)
  \/ \E t \in Callers : DeleteNodeGetNode(t)
  \/ \E t \in Callers : DeleteNodeChildren(t)
  \/ \E t \in Callers : DeleteNodeRemove(t)

SpecDelete == InitLocal /\ [][NextDelete]_vars

\* applyTemplate, await by await
ApplyTemplateCall(t, pid, template) ==
  TaskCall(t, "applyTemplate", pid, [memoryId |-> pid, template |-> template])

\* the position before the next entry of the template, or the return
TemplateTurn(t, rest, createdNodes) ==
  IF Len(rest) > 0
  THEN [op |-> "applyTemplate", pc |-> "nodePathExists", memoryId |-> tasks[t].memoryId,
        args |-> tasks[t].args, rest |-> rest, createdNodes |-> createdNodes]
  ELSE [op |-> "applyTemplate", pc |-> "done", err |-> "none", args |-> tasks[t].args,
        memoryId |-> tasks[t].memoryId, success |-> TRUE, createdNodes |-> createdNodes]

ApplyTemplateGetMemory(t) ==
  /\ At(t, "applyTemplate", "getMemory")
  /\ LET template == tasks[t].args.template
     IN tasks' = [tasks EXCEPT ![t] =
          IF Len(getMemory(storage, tasks[t].memoryId)) = 0 THEN Ended(t, "NotFound")
          ELSE IF \E i \in 1..Len(template) : TemplateNodeInvalid(template[i])
          THEN Ended(t, "Validation")
          ELSE TemplateTurn(t, template, <<>>)]
  /\ UNCHANGED storage
  /\ TaskFrame

ApplyTemplateExists(t) ==
  /\ At(t, "applyTemplate", "nodePathExists")
  /\ tasks' = [tasks EXCEPT ![t] =
       IF nodePathExists(storage, tasks[t].memoryId, Head(tasks[t].rest).path)
       THEN TemplateTurn(t, Tail(tasks[t].rest), tasks[t].createdNodes)
       ELSE [@ EXCEPT !.pc = "saveNode"]]
  /\ UNCHANGED storage
  /\ TaskFrame

ApplyTemplateSave(t) ==
  /\ At(t, "applyTemplate", "saveNode")
  /\ LET templateNode == Head(tasks[t].rest)
     IN /\ storage' = saveNode(storage, tasks[t].memoryId, templateNode, now).storage
        /\ NodeCount(storage') <= MaxNodes
        /\ tasks' = [tasks EXCEPT ![t] =
             TemplateTurn(t, Tail(tasks[t].rest),
                          Append(tasks[t].createdNodes,
                                 [path |-> templateNode.path,
                                  needInit |-> templateNode.needInit]))]
  /\ TaskFrame

NextTemplate ==
  \/ \E params \in CreateInputs : nextId = 0 /\ LocalCreateMemory(params)
  \/ \E node \in NodeInputs : Quiet /\ LocalAddNode(1, node)
  \/ Return
  \/ \E t \in Callers, template \in Templates : ApplyTemplateCall(t, 1, template)
  \/ \E t \in Callers : ApplyTemplateGetMemory(t)
  \/ \E t \in Callers : ApplyTemplateExists(t)
  \/ \E t \in Callers : ApplyTemplateSave(t)

SpecTemplate == InitLocal /\ [][NextTemplate]_vars

\* ================================================================ claims
\* the items of the medium, as the claims speak of them
MemoryAt(C) == <<"memory", C>> \in DOMAIN storage
NodeAt(C, p) == <<"node", C, p>> \in DOMAIN storage
StoredNode(C, p) == Parse(storage[<<"node", C, p>>])

\* the collection a Local call addresses: the caller's id, else the default
Addressed(pid) == IF pid # NoId THEN pid ELSE defaultMemoryId

\* a step in which the Local / Remote service handles the call op
LocalCall(op) == backend = "local" /\ Idle /\ call'.op = op
RemoteCall(op) == backend = "remote" /\ Idle /\ call'.op = op

\* the descendants of p stored in C: the paths that start with p + "/"
Descendants(C, p) == { q \in Paths : NodeAt(C, q) /\ StartsWith(q, p \o <<"/">>) }

\* the properties of a node that a caller supplies
NodeFields ==
  {"path", "name", "description", "attention", "needInit", "format", "type", "content"}

\* C1: Local addNode at a path where a node already exists fails with Conflict
\* and leaves every item of the medium (that node, every other node, the
\* collection descriptors) as it was.
C1_DuplicateAddConflict ==
  [][LocalCall("addNode") =>
       LET C == Addressed(call'.memoryId)
           p == call'.node.path
       IN (C # NoId /\ NodeAt(C, p)) =>
            (resp'.err = "Conflict" /\ storage' = storage)]_vars

C1_Witness ==
  /\ backend = "local" /\ call.op = "addNode" /\ resp.err = "Conflict"
  /\ NodeAt(Addressed(call.memoryId), call.node.path)
  /\ StoredNode(Addressed(call.memoryId), call.node.path).name # call.node.name

\* C2: after a successful Local addNode(C, node), getNode(C, node.path)
\* returns the input on every caller-supplied property, and the store has
\* added createdAt and updatedAt and nothing else.
C2_AddGetRoundTrip ==
  [][\A pid \in Ids, node \in NodeInputs :
       (LocalCall("addNode") /\ call'.memoryId = pid /\ call'.node = node
          /\ resp'.err = "none") =>
         LET got == LocalGetNodeResult(pid, node.path)'
         IN /\ got.err = "none"
            /\ \A f \in NodeFields :
                 /\ Has(got.node, f) <=> Has(node, f)
                 /\ Has(node, f) => got.node[f] = node[f]
            /\ DOMAIN got.node = DOMAIN node \cup {"createdAt", "updatedAt"}]_vars

C2_Witness ==
  /\ backend = "local" /\ call.op = "addNode" /\ resp.err = "none"
  /\ DOMAIN call.node = NodeFields
  /\ NodeAt(Addressed(call.memoryId), call.node.path)

\* the seven operations on one collection
SingleOps ==
  {"getInitNodes", "addNode", "getNode", "listNodes", "updateNode", "deleteNode",
   "applyTemplate"}

\* the collection id a caller put in the params of a Remote call ('' if none)
GivenId(params) == IF Has(params, "memoryId") THEN params.memoryId ELSE NoId

C4_LocalDefaultWins ==
  [][(backend = "local" /\ Idle /\ call'.op \in SingleOps /\ defaultMemoryId # NoId) =>
       LET D == defaultMemoryId IN
         /\ \A k \in DOMAIN storage \cup DOMAIN storage' :
              k[2] # D => (k \in DOMAIN storage /\ k \in DOMAIN storage'
                             /\ storage'[k] = storage[k])
         /\ call'.op = "getNode" =>
              IF NodeAt(D, call'.path)
              THEN resp'.err = "none" /\ resp'.node = StoredNode(D, call'.path)
              ELSE resp'.err = "NotFound"]_vars

\* C5: in both services, with no default configured, a single-collection
\* operation called without a memoryId (or with '') fails with a
\* Configuration error, sends no request and leaves the medium untouched.
C5_NoIdConfigurationError ==
  [][(Idle /\ call'.op \in SingleOps /\ defaultMemoryId = NoId
        /\ (IF backend = "local" THEN call'.memoryId ELSE GivenId(call'.params)) = NoId) =>
       (resp'.err = "Configuration" /\ rpcSent' = <<>> /\ storage' = storage)]_vars

C5_Witness ==
  /\ backend = "remote" /\ rpcEndpoint
  /\ call.op \in SingleOps /\ GivenId(call.params) = NoId
  /\ defaultMemoryId = NoId
  /\ resp.err = "Configuration" /\ rpcSent = <<>>

\* C6: Local deleteNode with recursive = false on a node that has at least
\* one descendant fails with Conflict and removes nothing.
C6_DeleteWithChildrenConflict ==
  [][LocalCall("deleteNode") =>
       LET C == Addressed(call'.memoryId)
           p == call'.path
       IN (~call'.recursive /\ C # NoId /\ NodeAt(C, p) /\ Descendants(C, p) # {}) =>
            (resp'.err = "Conflict" /\ storage' = storage)]_vars

C6_Witness ==
  /\ backend = "local" /\ call.op = "deleteNode" /\ ~call.recursive
  /\ resp.err = "Conflict"
  /\ NodeAt(Addressed(call.memoryId), call.path)
  /\ Descendants(Addressed(call.memoryId), call.path) # {}

\* C7: Local deleteNode with recursive = true on an existing node succeeds
\* with success = true and deletedCount = 1 + the number of descendants it
\* had, and afterwards getNode is NotFound for the node and each descendant.
C7_RecursiveDeleteCount ==
  [][\A pid \in Ids, p \in Paths :
       (LocalCall("deleteNode") /\ call'.memoryId = pid /\ call'.path = p
          /\ call'.recursive /\ Addressed(pid) # NoId /\ NodeAt(Addressed(pid), p)) =>
         /\ resp'.err = "none"
         /\ resp'.success
         /\ resp'.deletedCount = 1 + Cardinality(Descendants(Addressed(pid), p))
         /\ \A q \in Paths :
              (q = p \/ q \in Descendants(Addressed(pid), p)) =>
                LocalGetNodeResult(pid, q)'.err = "NotFound"]_vars

C7_Witness ==
  /\ backend = "local" /\ call.op = "deleteNode" /\ call.recursive
  /\ resp.err = "none" /\ resp.deletedCount = 2
  /\ \E q \in Paths : NodeAt(Addressed(call.memoryId), q) /\ StartsWith(q, call.path)

\* C8: Local deleteNode where no node exists at exactly the path fails with
\* NotFound for either value of recursive and removes nothing, even when
\* nodes whose paths start with path + "/" exist.
C8_DeleteMissingNotFound ==
  [][LocalCall("deleteNode") =>
       LET C == Addressed(call'.memoryId)
           p == call'.path
       IN (C # NoId /\ ~NodeAt(C, p)) =>
            (resp'.err = "NotFound" /\ storage' = storage)]_vars

C8_Witness ==
  /\ backend = "local" /\ call.op = "deleteNode" /\ call.recursive
  /\ resp.err = "NotFound"
  /\ MemoryAt(Addressed(call.memoryId))
  /\ ~NodeAt(Addressed(call.memoryId), call.path)
  /\ Descendants(Addressed(call.memoryId), call.path) # {}

\* the filter of a listing accepts a node
FilterAccepts(node, filter) ==
  /\ Has(filter, "path") => StartsWith(node.path, filter.path)
  /\ Has(filter, "type") => node.type = filter.type
  /\ Has(filter, "needInit") => (Has(node, "needInit") /\ node.needInit = filter.needInit)

\* the paths of collection C whose nodes the filter accepts, in storage order
Matching(C, filter) ==
  LET accepted(p) == NodeAt(C, p) /\ FilterAccepts(StoredNode(C, p), filter)
  IN SelectSeq(PathOrder, accepted)

PathsOf(nodes) == [i \in 1..Len(nodes) |-> nodes[i].path]

\* C9: Local listNodes, for every filter, offset >= 0 and limit >= 0 (limit =
\* 0 included): total is the size of the whole matching list and nodes are
\* its positions [offset, offset + limit) clipped to its length; an omitted
\* offset is 0 and an omitted limit is 50.
C9_ListPagination ==
  (backend = "local" /\ call.op = "listNodes" /\ resp.err = "none") =>
    LET matching == Matching(Addressed(call.memoryId), call.filter)
        offset == IF Has(call.pagination, "offset") THEN call.pagination.offset ELSE 0
        limit == IF Has(call.pagination, "limit") THEN call.pagination.limit ELSE 50
        first == Min(offset, Len(matching))
        last == Min(offset + limit, Len(matching))
    IN /\ resp.total = Len(matching)
       /\ PathsOf(resp.nodes) = [i \in 1..(last - first) |-> matching[first + i]]

\* C10: a Local listing returns exactly the nodes whose path starts with the
\* prefix (if one is given), whose type equals the filter's (if given) and
\* whose needInit equals the filter's (if given; needInit = false does not
\* match a node without needInit); getInitNodes lists the nodes with
\* needInit = true under its optional prefix.
C10_FilterMatching ==
  /\ (backend = "local" /\ call.op = "listNodes" /\ resp.err = "none") =>
       resp.total = Len(Matching(Addressed(call.memoryId), call.filter))
  /\ (backend = "local" /\ call.op = "getInitNodes" /\ resp.err = "none") =>
       PathsOf(resp.nodes)
         = Matching(Addressed(call.memoryId), Put(call.filter, "needInit", TRUE))
  /\ (backend = "local" /\ Idle) =>
       \A pid \in Ids :
         /\ \A filter \in AllFilters :
              LET r == LocalListNodesResult(pid, filter, <<>>) IN
                r.err = "none" =>
                  /\ PathsOf(r.nodes) = Matching(Addressed(pid), filter)
                  /\ r.total = Len(r.nodes)
         /\ \A filter \in InitFilters :
              LET r == LocalGetInitNodesResult(pid, filter) IN
                r.err = "none" =>
                  PathsOf(r.nodes) = Matching(Addressed(pid), Put(filter, "needInit", TRUE))

C10_Witness ==
  /\ backend = "local" /\ call.op = "listNodes" /\ resp.err = "none"
  /\ Has(call.filter, "needInit") /\ ~call.filter.needInit
  /\ Has(call.filter, "path")
  /\ resp.total = 1
  /\ \E p \in Paths :
       /\ NodeAt(Addressed(call.memoryId), p)
       /\ StartsWith(p, call.filter.path)
       /\ ~Has(StoredNode(Addressed(call.memoryId), p), "needInit")

\* a text made of white space only (the empty text included)
IsBlank(text) == \A i \in 1..Len(text) : text[i] \in {" ", "\t"}

\* a template entry that asks for initialisation but brings no content
EntryInvalid(entry) ==
  entry.needInit /\ (~Has(entry, "content") \/ IsBlank(entry.content))

\* C11: Local applyTemplate with any entry that has needInit = true and content
\* absent or blank after trimming fails (with Validation once the collection
\* is resolved and exists) and creates no node of the template, valid entries
\* ahead of the invalid one included: the node store is unchanged.
C11_TemplateValidationAllOrNothing ==
  [][LocalCall("applyTemplate") =>
       LET C == Addressed(call'.memoryId)
           template == call'.template
       IN (\E i \in 1..Len(template) : EntryInvalid(template[i])) =>
            /\ storage' = storage
            /\ resp'.err # "none"
            /\ (C # NoId /\ MemoryAt(C)) => resp'.err = "Validation"]_vars

C11_Witness ==
  /\ backend = "local" /\ call.op = "applyTemplate" /\ resp.err = "Validation"
  /\ ~EntryInvalid(call.template[1])
  /\ ~NodeAt(Addressed(call.memoryId), call.template[1].path)
  /\ EntryInvalid(call.template[2])
  /\ Has(call.template[2], "content") /\ Len(call.template[2].content) > 0

\* the call is applyTemplate(pid, template) on an existing collection with a
\* template that passes validation
ValidApply(pid, template) ==
  /\ LocalCall("applyTemplate")
  /\ call'.memoryId = pid /\ call'.template = template
  /\ Addressed(pid) # NoId /\ MemoryAt(Addressed(pid))
  /\ \A i \in 1..Len(template) : ~EntryInvalid(template[i])

\* the node items of collection C are the same before and after the step
NodesKept(C, paths) ==
  \A p \in paths :
    NodeAt(C, p) =>
      /\ <<"node", C, p>> \in DOMAIN storage'
      /\ storage'[<<"node", C, p>>] = storage[<<"node", C, p>>]

\* C12: Local applyTemplate with a valid template succeeds, leaves every node
\* that already exists at a template path as it was (content, other fields,
\* createdAt and updatedAt), and leaves every template path stored; applied
\* when all its paths exist (as after a first application) it creates nothing,
\* and a second application right after the first returns createdNodes = [].
C12_TemplateIdempotent ==
  [][\A pid \in Ids, template \in Templates :
       ValidApply(pid, template) =>
         LET C == Addressed(pid)
             paths == { template[i].path : i \in 1..Len(template) }
             again == LocalApplyTemplateResult(pid, template)'
         IN /\ resp'.err = "none"
            /\ NodesKept(C, paths)
            /\ \A p \in paths : <<"node", C, p>> \in DOMAIN storage'
            /\ (\A p \in paths : NodeAt(C, p)) =>
                 (resp'.createdNodes = <<>> /\ NodesKept(C, Paths))
            /\ again.resp.err = "none"
            /\ again.resp.createdNodes = <<>>
            /\ again.storage = storage']_vars

C12_Witness ==
  /\ backend = "local" /\ call.op = "applyTemplate" /\ resp.err = "none"
  /\ Len(call.template) > 0
  /\ resp.createdNodes = <<>>
  /\ \A i \in 1..Len(call.template) :
       /\ NodeAt(Addressed(call.memoryId), call.template[i].path)
       /\ StoredNode(Addressed(call.memoryId), call.template[i].path).updatedAt < now

\* the entries of a template that meet a free path: not stored before the
\* call and not named by an earlier entry
FreshEntries(C, template) ==
  LET fresh(i) == /\ ~NodeAt(C, template[i].path)
                  /\ \A j \in 1..(i - 1) : template[j].path # template[i].path
  IN SelectSeq([i \in 1..Len(template) |-> i], fresh)

\* C13: once validation passes, Local applyTemplate answers success = true and
\* createdNodes is, in template order, the {path, needInit} of the entries
\* whose path was free when the entry was processed; a path named twice is
\* created from its first entry only and is listed once.
C13_TemplateCreatedNodes ==
  [][\A pid \in Ids, template \in Templates :
       ValidApply(pid, template) =>
         LET C == Addressed(pid)
             idx == FreshEntries(C, template)
         IN /\ resp'.err = "none" /\ resp'.success
            /\ resp'.createdNodes =
                 [k \in 1..Len(idx) |-> [path |-> template[idx[k]].path,
                                         needInit |-> template[idx[k]].needInit]]
            /\ \A k \in 1..Len(idx) :
                 LET entry == template[idx[k]]
                     key == <<"node", C, entry.path>>
                 IN /\ key \in DOMAIN storage'
                    /\ \A f \in DOMAIN entry : Parse(storage'[key])[f] = entry[f]]_vars

C13_Witness ==
  /\ backend = "local" /\ call.op = "applyTemplate" /\ resp.err = "none"
  /\ Len(call.template) = 2
  /\ call.template[1].path = call.template[2].path
  /\ call.template[1].name # call.template[2].name
  /\ resp.createdNodes = << [path |-> call.template[1].path,
                             needInit |-> call.template[1].needInit] >>
  /\ StoredNode(Addressed(call.memoryId), call.template[1].path).name = call.template[1].name

\* the collection a batch item addresses, and whether its node can be got
ItemCollection(item) == Addressed(GivenId(item))
ItemFound(item) ==
  /\ ItemCollection(item) # NoId
  /\ MemoryAt(ItemCollection(item))
  /\ NodeAt(ItemCollection(item), item.path)

\* C14: Local batchGetNodes never fails as a whole; its result is, in request
\* order, the nodes of the items whose own get succeeds, and an item whose
\* collection id cannot be resolved or whose collection or node is missing is
\* left out with nothing reported for it.
C14_LocalBatchDropsFailures ==
  (backend = "local" /\ call.op = "batchGetNodes") =>
    LET kept == SelectSeq(call.requests, ItemFound)
    IN /\ resp.err = "none"
       /\ resp.nodes =
            [i \in 1..Len(kept) |-> StoredNode(ItemCollection(kept[i]), kept[i].path)]

C14_Witness ==
  /\ backend = "local" /\ call.op = "batchGetNodes" /\ resp.err = "none"
  /\ Len(call.requests) = 2
  /\ ~ItemFound(call.requests[1])
  /\ ItemFound(call.requests[2])
  /\ Len(resp.nodes) = 1

\* C15: Remote batchGetNodes with no default configured drops a request item
\* that has no memoryId as a per-item failure: the batch is not aborted and
\* the remaining items are still forwarded in the memory.Batch request.
C15_RemoteBatchDropsItems ==
  LET hasId(item) == GivenId(item) # NoId
      items == call.params.requests
      kept == SelectSeq(items, hasId)
  IN (/\ backend = "remote" /\ call.op = "batchGetNodes"
      /\ rpcEndpoint /\ defaultMemoryId = NoId
      /\ Len(kept) > 0 /\ Len(kept) < Len(items)) =>
       /\ resp.err # "Configuration"
       /\ Len(rpcSent) = 1
       /\ rpcSent[1].method = "memory.Batch"
       /\ rpcSent[1].params.requests = kept

\* C16: in the Local backend every stored node belongs to a collection of the
\* registry, whatever createMemory, addNode, updateNode, deleteNode and
\* applyTemplate calls were made; addNode and applyTemplate against an id
\* without a collection fail with NotFound and create no node; no operation
\* removes a collection.
C16_NodesBelongToCollections ==
  [][/\ \A k \in DOMAIN storage' :
          k[1] = "node" => <<"memory", k[2]>> \in DOMAIN storage'
     /\ \A k \in DOMAIN storage :
          k[1] = "memory" => k \in DOMAIN storage'
     /\ (/\ backend = "local" /\ Idle
         /\ call'.op \in {"addNode", "applyTemplate"}
         /\ Addressed(call'.memoryId) # NoId
         /\ ~MemoryAt(Addressed(call'.memoryId))) =>
          (resp'.err = "NotFound" /\ storage' = storage)]_vars

C16_Witness ==
  /\ backend = "local" /\ call.op \in {"addNode", "applyTemplate"}
  /\ resp.err = "NotFound"
  /\ Addressed(call.memoryId) # NoId
  /\ ~MemoryAt(Addressed(call.memoryId))
  /\ \E C \in Ids, p \in Paths : NodeAt(C, p)

\* C17: in the Local backend a node's createdAt is the clock reading at its
\* creation and stays so over later updateNode calls and template
\* re-applications; each successful updateNode sets updatedAt to the time of
\* that update; updatedAt never decreases and is never before createdAt.
C17_NodeTimestamps ==
  [][backend = "local" =>
       \A C \in Ids \ {NoId}, p \in Paths :
         /\ (~NodeAt(C, p) /\ NodeAt(C, p)') => StoredNode(C, p)'.createdAt = now
         /\ (NodeAt(C, p) /\ NodeAt(C, p)') =>
              /\ StoredNode(C, p)'.createdAt = StoredNode(C, p).createdAt
              /\ StoredNode(C, p)'.updatedAt >= StoredNode(C, p).updatedAt
         /\ NodeAt(C, p)' => StoredNode(C, p)'.updatedAt >= StoredNode(C, p)'.createdAt
         /\ (/\ Idle /\ call'.op = "updateNode" /\ resp'.err = "none"
             /\ C = Addressed(call'.memoryId) /\ p = call'.path) =>
              /\ NodeAt(C, p)'
              /\ StoredNode(C, p)'.updatedAt = now
              /\ resp'.updatedAt = now]_vars

C17_Witness ==
  /\ backend = "local" /\ call.op = "updateNode" /\ resp.err = "none"
  /\ NodeAt(Addressed(call.memoryId), call.path)
  /\ StoredNode(Addressed(call.memoryId), call.path).updatedAt = now
  /\ StoredNode(Addressed(call.memoryId), call.path).createdAt < now

\* the descriptor of collection C
StoredMemory(C) == Parse(storage[<<"memory", C>>])

\* the step is a successful Local call of op that changed a node
NodeMutation(op) ==
  /\ LocalCall(op) /\ resp'.err = "none"
  /\ op = "applyTemplate" => resp'.createdNodes # <<>>
  /\ op = "deleteNode" => resp'.deletedCount >= 1

\* the descriptor of C is touched at the time of the step and otherwise kept
Touched(C) ==
  /\ Has(StoredMemory(C)', "updatedAt")
  /\ StoredMemory(C)'.updatedAt = now
  /\ \A f \in {"id", "name", "description", "createdAt", "metadata"} :
       /\ Has(StoredMemory(C)', f) <=> Has(StoredMemory(C), f)
       /\ Has(StoredMemory(C), f) => StoredMemory(C)'[f] = StoredMemory(C)[f]

\* C18: after any successful node mutation in collection C of the Local
\* backend (addNode, updateNode, a node created by applyTemplate, a deleteNode
\* that removes at least one node) the descriptor of C has updatedAt equal to
\* the time of the mutation, and its id, name, description, createdAt and
\* metadata are unchanged.
C18_CollectionTouch ==
  [][\A C \in Ids \ {NoId} :
       (/\ \E op \in {"addNode", "updateNode", "applyTemplate", "deleteNode"} :
             NodeMutation(op)
        /\ C = Addressed(call'.memoryId)) => Touched(C)]_vars

\* C19: deleteNode of the storage layer (Local backend) returns true if and
\* only if a node was stored at (collectionId, path) before the call and the
\* call removed it, returns false when the key was already absent, and raises
\* no error; called twice in a row on one key it returns true, then false.
C19_RemoveReportsRemoval ==
  [][(Idle /\ call'.op = "storage.deleteNode") =>
       /\ resp'.err = "none"
       /\ resp'.success <=> NodeAt(call'.memoryId, call'.path)
       /\ <<"node", call'.memoryId, call'.path>> \notin DOMAIN storage']_vars

\* the method name of each operation in the interface table
MethodOf ==
  [op \in SingleOps \cup {"createMemory", "batchGetNodes"} |->
     CASE op = "createMemory" -> "memManager.Create"
       [] op = "applyTemplate" -> "memManager.ApplyTemplate"
       [] op = "getInitNodes" -> "memory.GetInitNodes"
       [] op = "addNode" -> "memory.Add"
       [] op = "getNode" -> "memory.Get"
       [] op = "listNodes" -> "memory.List"
       [] op = "updateNode" -> "memory.Update"
       [] op = "deleteNode" -> "memory.Delete"
       [] op = "batchGetNodes" -> "memory.Batch"]

\* the Remote call in progress has an endpoint and a collection id to go to
Forwardable ==
  /\ rpcEndpoint
  /\ \/ call.op = "createMemory"
     \/ defaultMemoryId # NoId
     \/ call.op \in SingleOps /\ GivenId(call.params) # NoId
     \/ /\ call.op = "batchGetNodes"
        /\ \A i \in 1..Len(call.params.requests) : GivenId(call.params.requests[i]) # NoId

\* C20: each operation of the Remote service sends exactly one request, with
\* the method name of the interface table; when that request fails (transport
\* error, non-OK HTTP status, error member in the response) the operation
\* fails with an error to its caller and no second request is sent.
C20_RemoteOneRequestNoRetry ==
  (backend = "remote" /\ ~Idle) =>
    /\ Len(rpcSent) <= 1
    /\ Forwardable => Len(rpcSent) = 1
    /\ \A i \in 1..Len(rpcSent) :
         /\ rpcSent[i].method = MethodOf[call.op]
         /\ rpcSent[i].outcome = "ok" => resp.err = "none"
         /\ rpcSent[i].outcome # "ok" => resp.err = "Upstream"

C20_Witness ==
  /\ backend = "remote" /\ call.op = "deleteNode"
  /\ Len(rpcSent) = 1
  /\ rpcSent[1].method = "memory.Delete"
  /\ rpcSent[1].outcome = "http"
  /\ resp.err = "Upstream"

\* the node items other than (C, p) are the same before and after the step
OtherNodesKept(C, p) ==
  \A k \in DOMAIN storage \cup DOMAIN storage' :
    (k[1] = "node" /\ k # <<"node", C, p>>) =>
      (k \in DOMAIN storage /\ k \in DOMAIN storage' /\ storage'[k] = storage[k])

\* C22: Local updateNode on a path without a node fails with NotFound and
\* creates nothing; otherwise the stored node afterwards is the previous node
\* with exactly the supplied update fields replaced (updatedAt being the
\* store's stamp), its path still p and its createdAt unchanged, and no other
\* node is changed.
C22_UpdateFrame ==
  [][\A pid \in Ids, u \in UpdateCalls :
       (/\ LocalCall("updateNode")
        /\ call'.memoryId = pid /\ call'.path = u.path /\ call'.updates = u.updates
        /\ Addressed(pid) # NoId) =>
         LET C == Addressed(pid)
             key == <<"node", C, u.path>>
         IN IF ~NodeAt(C, u.path)
            THEN resp'.err = "NotFound" /\ storage' = storage
            ELSE /\ resp'.err = "none"
                 /\ key \in DOMAIN storage'
                 /\ DOMAIN Parse(storage'[key])
                      = DOMAIN StoredNode(C, u.path) \cup DOMAIN u.updates
                 /\ \A f \in DOMAIN Parse(storage'[key]) \ {"updatedAt"} :
                      Parse(storage'[key])[f] =
                        IF f \in DOMAIN u.updates THEN u.updates[f]
                        ELSE StoredNode(C, u.path)[f]
                 /\ Parse(storage'[key]).path = u.path
                 /\ Parse(storage'[key]).createdAt = StoredNode(C, u.path).createdAt
                 /\ OtherNodesKept(C, u.path)]_vars

C22_Witness ==
  /\ backend = "local" /\ call.op = "updateNode" /\ resp.err = "none"
  /\ call.updates = [name |-> "n9", content |-> <<"y">>, needInit |-> FALSE]
  /\ StoredNode(Addressed(call.memoryId), call.path).name = "n9"
  /\ Has(StoredNode(Addressed(call.memoryId), call.path), "format")
  /\ StoredNode(Addressed(call.memoryId), call.path).createdAt < now
  /\ \E q \in Paths \ {call.path} : NodeAt(Addressed(call.memoryId), q)

\* C23: a successful Local deleteNode of path p in collection C removes the
\* node at p and, when recursive, the nodes whose path starts with p + "/",
\* and nothing else: every other node of C (such as "ab" beside "a") and
\* every node of every other collection is left unchanged.
C23_DeleteFrame ==
  [][(LocalCall("deleteNode") /\ resp'.err = "none") =>
       LET C == Addressed(call'.memoryId)
           p == call'.path
           doomed(k) == /\ k[2] = C
                        /\ \/ k[3] = p
                           \/ call'.recursive /\ StartsWith(k[3], p \o <<"/">>)
       IN /\ DOMAIN storage' \subseteq DOMAIN storage
          /\ \A k \in DOMAIN storage :
               k[1] = "node" =>
                 IF doomed(k) THEN k \notin DOMAIN storage'
                 ELSE k \in DOMAIN storage' /\ storage'[k] = storage[k]]_vars

C23_Witness ==
  /\ backend = "local" /\ call.op = "deleteNode" /\ call.recursive
  /\ resp.err = "none" /\ resp.deletedCount = 2
  /\ \E C \in Ids \ {NoId, Addressed(call.memoryId)}, q \in Paths : NodeAt(C, q)

\* the failing storage operation of the call just issued is one the call
\* reaches, the store being as it was when the call was issued
FaultReached ==
  /\ Idle /\ ~Idle'
  /\ Has(call', "fault")
  /\ LocalMemoryId(call'.memoryId) # NoId
  /\ \/ call'.fault = "getMemory"
     \/ /\ MemoryAt(LocalMemoryId(call'.memoryId))
        /\ \/ /\ call'.fault = "getNode"
              /\ call'.op \in {"getNode", "addNode", "updateNode", "deleteNode"}
           \/ /\ call'.fault = "getAllNodes"
              /\ \/ call'.op = "listNodes"
                 \/ /\ call'.op = "deleteNode"
                    /\ NodeAt(LocalMemoryId(call'.memoryId), call'.path)
           \/ /\ call'.fault = "removeItem"
              /\ call'.op = "deleteNode"
              /\ NodeAt(LocalMemoryId(call'.memoryId), call'.path)
              /\ \/ call'.recursive
                 \/ Descendants(LocalMemoryId(call'.memoryId), call'.path) = {}
           \/ /\ call'.fault = "setItem"
              /\ \/ /\ call'.op = "addNode"
                    /\ ~NodeAt(LocalMemoryId(call'.memoryId), call'.node.path)
                 \/ /\ call'.op = "updateNode"
                    /\ NodeAt(LocalMemoryId(call'.memoryId), call'.path)

\* C21: a call of getNode, addNode, listNodes, updateNode or deleteNode during
\* which a storage read, removal or write fails ends in the storage error for
\* its caller: not in a NotFound, not in a list, not in a successful add or
\* delete.
C21_ErrorsPropagate == [][FaultReached => resp'.err = "Storage"]_vars

\* C24: of two Local addNode calls in flight together for the same path of
\* the same collection at most one returns the path and the other fails with
\* Conflict; the stored node holds the fields of the call that returned.
C24_OneAddWins ==
  \A t, u \in Callers :
    ( /\ t # u
      /\ tasks[t].pc = "done" /\ tasks[t].op = "addNode"
      /\ tasks[u].pc = "done" /\ tasks[u].op = "addNode"
      /\ tasks[t].args.memoryId = tasks[u].args.memoryId
      /\ tasks[t].args.node.path = tasks[u].args.node.path
      /\ tasks[t].err = "none" )
    => /\ tasks[u].err = "Conflict"
       /\ \A k \in DOMAIN tasks[t].args.node :
            StoredNode(tasks[t].args.memoryId, tasks[t].args.node.path)[k]
              = tasks[t].args.node[k]

\* the caller t takes one turn of the loop of deleteNode
RemoveTurn(t) == tasks[t].pc = "deleteNode" /\ tasks'[t] # tasks[t]

\* C25: with Local deleteNode calls in flight together, each turn of a call's
\* loop raises that call's deletedCount exactly when the turn removed a stored
\* node, so each returned deletedCount is the number of nodes the call itself
\* removed and the counts sum to the nodes removed.
C25_CountsOwnRemovals ==
  [][\A t \in Callers :
       RemoveTurn(t) =>
         tasks'[t].deletedCount = tasks[t].deletedCount
           + (IF NodeAt(tasks[t].memoryId, Head(tasks[t].pathsToDelete)) THEN 1 ELSE 0)]_vars

\* the caller t saves an entry of its template
SaveTurn(t) ==
  tasks[t].pc = "saveNode" /\ tasks[t].op = "applyTemplate" /\ tasks'[t] # tasks[t]

\* both callers returned from applyTemplate with the same template on the
\* same collection
SameTemplateApplied(t, u) ==
  /\ t # u
  /\ tasks[t].pc = "done" /\ tasks[t].op = "applyTemplate" /\ tasks[t].err = "none"
  /\ tasks[u].pc = "done" /\ tasks[u].op = "applyTemplate" /\ tasks[u].err = "none"
  /\ tasks[t].args = tasks[u].args

\* C26: with two Local applyTemplate calls of the same valid template in
\* flight together on one collection, no path is in the createdNodes of both
\* calls, and a call saves an entry only where no node is stored, so a node
\* written by one call is never overwritten by the other.
C26_TemplateCreatedOnce ==
  /\ [](\A t, u \in Callers :
          SameTemplateApplied(t, u) =>
            \A i \in 1..Len(tasks[t].createdNodes), j \in 1..Len(tasks[u].createdNodes) :
              tasks[t].createdNodes[i].path # tasks[u].createdNodes[j].path)
  /\ [][\A t \in Callers :
          SaveTurn(t) => ~NodeAt(tasks[t].memoryId, Head(tasks[t].rest).path)]_vars
====
